---- MODULE Spec2Model ----
(***************************************************************************)
(* Model of the model-version registry of SwasthyaSahayak:                 *)
(*   src/ml/training/update_registry.py   (update_model_version, main)     *)
(*   src/ml/training/train_embeddings.py  (HealthEmbeddingTrainer.train)   *)
(*   src/ml/inference/service.py          (load_models and the handlers)   *)
(*   src/ml/tests/test_registry.py        (bump_patch, bump_minor, ...)    *)
(*   src/ml/models/emergency_classifier.py, translation_model.py,          *)
(*   embedding_model.py                   (predict, translate, encode)     *)
(* The registry file is a sequence of serialized tokens; strings that the  *)
(* code parses (version strings) are sequences of one-character strings.   *)
(***************************************************************************)
EXTENDS Integers, Sequences, FiniteSets, TLC

(* ------------------------------ bounds --------------------------------- *)
\* largest value the wall clock takes in the model
MaxClock == 1
\* number of process runs (updater, trainer, serving-process start) in one behaviour
MaxOps == 2
\* number of tokens the file object buffers before it issues a write()
BufferSize == 16
\* largest major, minor or patch number of the version strings given to the
\* bump functions
MaxPart == 10
\* largest number of texts in one call of predict or translate
MaxTexts == 2
\* largest number of texts in one call of encode
MaxRows == 5
\* largest batch_size given to encode
MaxBatchSize == 3

(* --------------------------- characters -------------------------------- *)
Digits == <<"0", "1", "2", "3", "4", "5", "6", "7", "8", "9">>

IsDigit(c) == \E d \in 1..10 : Digits[d] = c

DigitVal(c) == (CHOOSE d \in 1..10 : Digits[d] = c) - 1

DigitChar(n) == Digits[n + 1]

\* int("...") on a run of decimal digits
RECURSIVE ParseInt(_)
ParseInt(s) ==
    IF Len(s) = 0 THEN 0
    ELSE 10 * ParseInt(SubSeq(s, 1, Len(s) - 1)) + DigitVal(s[Len(s)])

\* str(n) for a non-negative integer, as an f-string renders it
RECURSIVE IntToStr(_)
IntToStr(n) ==
    IF n < 10 THEN <<DigitChar(n)>>
    ELSE IntToStr(n \div 10) \o <<DigitChar(n % 10)>>

\* length of the maximal run of digits of s that starts at position i (\d+ is greedy)
RECURSIVE DigitRun(_, _)
DigitRun(s, i) ==
    IF i <= Len(s) /\ IsDigit(s[i]) THEN 1 + DigitRun(s, i + 1) ELSE 0

\* re.match(r'v(\d+)\.(\d+)\.(\d+)', s): anchored at the start only
ReMatch(s) ==
    LET n1 == DigitRun(s, 2)
        p1 == 2 + n1
        n2 == DigitRun(s, p1 + 1)
        p2 == p1 + 1 + n2
        n3 == DigitRun(s, p2 + 1)
        e  == p2 + 1 + n3
        ok == /\ Len(s) >= 1
              /\ s[1] = "v"
              /\ n1 >= 1
              /\ p1 <= Len(s)
              /\ s[p1] = "."
              /\ n2 >= 1
              /\ p2 <= Len(s)
              /\ s[p2] = "."
              /\ n3 >= 1
    IN  IF ok
        THEN [ok |-> TRUE,
              major |-> ParseInt(SubSeq(s, 2, p1 - 1)),
              minor |-> ParseInt(SubSeq(s, p1 + 1, p2 - 1)),
              patch |-> ParseInt(SubSeq(s, p2 + 1, e - 1)),
              rest  |-> SubSeq(s, e, Len(s))]
        ELSE [ok |-> FALSE, major |-> 0, minor |-> 0, patch |-> 0, rest |-> s]

\* re.match(r'v\d+\.\d+\.\d+$', s): '$' matches at the end or before a final newline
version_pattern(s) ==
    LET m == ReMatch(s) IN m.ok /\ (m.rest = <<>> \/ m.rest = <<"\n">>)

\* f"v{major}.{minor}.{patch}"
FormatVersion(major, minor, patch) ==
    <<"v">> \o IntToStr(major) \o <<".">> \o IntToStr(minor) \o <<".">> \o IntToStr(patch)

\* str.startswith('v')
StartsWithV(s) == Len(s) >= 1 /\ s[1] = "v"

(* ------------------------------ values --------------------------------- *)
\* a JSON value of the registry: a string, or an object (the metadata mapping,
\* identified by the dimension it records for embedding_model)
StrVal(s) == [kind |-> "str", str |-> s, num |-> 0]

ObjVal(n) == [kind |-> "obj", str |-> <<>>, num |-> n]

\* datetime.utcnow().isoformat() + "Z" at clock value t
TsVal(t) == [kind |-> "ts", str |-> <<>>, num |-> t]

V100 == <<"v", "1", ".", "0", ".", "0">>

Unknown == <<"u", "n", "k", "n", "o", "w", "n">>

(* ------------------- dictionaries (insertion ordered) ------------------ *)
\* a dict is a sequence of [key, val] pairs with distinct keys
HasKey(d, k) == \E i \in 1..Len(d) : d[i].key = k

\* dict.get(k, default)
Get(d, k, default) ==
    IF HasKey(d, k) THEN d[CHOOSE i \in 1..Len(d) : d[i].key = k].val ELSE default

\* d[k] = v: an existing key keeps its position, a new key is appended
Put(d, k, v) ==
    IF HasKey(d, k)
    THEN [i \in 1..Len(d) |-> IF d[i].key = k THEN [key |-> k, val |-> v] ELSE d[i]]
    ELSE Append(d, [key |-> k, val |-> v])

Keys(d) == {d[i].key : i \in 1..Len(d)}

(* --------------------------- serialization ----------------------------- *)
\* one unit of the serialized document
Tok(t, s, n) == [t |-> t, s |-> s, n |-> n]

RECURSIVE DumpChars(_)
DumpChars(s) ==
    IF Len(s) = 0 THEN <<Tok("end", "", 0)>>
    ELSE <<Tok("chr", s[1], 0)>> \o DumpChars(Tail(s))

DumpValue(v) ==
    IF v.kind = "str" THEN DumpChars(v.str) ELSE <<Tok(v.kind, "", v.num)>>

RECURSIVE DumpMembers(_)
DumpMembers(d) ==
    IF Len(d) = 0 THEN <<>>
    ELSE <<Tok("key", d[1].key, 0)>> \o DumpValue(d[1].val) \o DumpMembers(Tail(d))

\* json.dump(registry, f) of a dict: members in insertion order between braces
Dump(d) == <<Tok("open", "", 0)>> \o DumpMembers(d) \o <<Tok("close", "", 0)>>

\* number of string-character tokens of b from position i on
RECURSIVE ChrRun(_, _)
ChrRun(b, i) ==
    IF i <= Len(b) /\ b[i].t = "chr" THEN 1 + ChrRun(b, i + 1) ELSE 0

LoadError == [kind |-> "error", doc |-> <<>>]

RECURSIVE ParseMembers(_, _, _)
ParseMembers(b, i, acc) ==
    IF i > Len(b) THEN LoadError
    ELSE IF b[i].t = "close"
         THEN IF i = Len(b) THEN [kind |-> "dict", doc |-> acc] ELSE LoadError
    ELSE IF b[i].t = "key"
         THEN IF i + 1 > Len(b) THEN LoadError
              ELSE IF b[i + 1].t \in {"obj", "ts"}
                   THEN ParseMembers(b, i + 2,
                            Put(acc, b[i].s, [kind |-> b[i + 1].t, str |-> <<>>, num |-> b[i + 1].n]))
              ELSE LET n == ChrRun(b, i + 1)
                   IN  IF i + 1 + n <= Len(b) /\ b[i + 1 + n].t = "end"
                       THEN ParseMembers(b, i + 2 + n,
                                Put(acc, b[i].s,
                                    StrVal([j \in 1..n |-> b[i + j].s])))
                       ELSE LoadError
    ELSE LoadError

\* json.load(f) on the bytes read: a dict, the JSON value null, or JSONDecodeError
Load(b) ==
    IF Len(b) = 0 THEN LoadError
    ELSE IF b[1].t = "null"
         THEN IF Len(b) = 1 THEN [kind |-> "null", doc |-> <<>>] ELSE LoadError
    ELSE IF b[1].t = "open" THEN ParseMembers(b, 2, <<>>)
    ELSE LoadError

(* ------------------------------ the file ------------------------------- *)
NoFile == [exists |-> FALSE, bytes |-> <<>>]

FileOf(b) == [exists |-> TRUE, bytes |-> b]

\* open(path, 'w'): creates or truncates
Truncate(f) == FileOf(<<>>)

\* write(chunk) through a descriptor whose offset is off: bytes before the
\* offset that the file no longer has read back as NUL
WriteAt(b, off, chunk) ==
    LET newLen == IF off + Len(chunk) > Len(b) THEN off + Len(chunk) ELSE Len(b)
    IN  [i \in 1..newLen |->
            IF i > off /\ i <= off + Len(chunk) THEN chunk[i - off]
            ELSE IF i <= Len(b) THEN b[i]
            ELSE Tok("nul", "", 0)]

(* ------------------------- documents and inputs ------------------------ *)
Pair(k, v) == [key |-> k, val |-> v]

\* the three model identifiers the serving process reads
ModelIds == {"embedding_model", "emergency_classifier", "translation_model"}

\* registry as created by test_version_update
PlainDoc ==
    <<Pair("embedding_model", StrVal(V100)),
      Pair("emergency_classifier", StrVal(V100)),
      Pair("translation_model", StrVal(V100))>>

\* registry with every documented field
FullDoc ==
    <<Pair("embedding_model", StrVal(V100)),
      Pair("emergency_classifier", StrVal(V100)),
      Pair("translation_model", StrVal(V100)),
      Pair("last_updated", TsVal(0)),
      Pair("metadata", ObjVal(768))>>

\* a registry whose embedding_model value lacks the leading v
BadVersionDoc == Put(PlainDoc, "embedding_model", StrVal(<<"1", ".", "0", ".", "0">>))

\* a registry without an embedding_model entry
NoEmbeddingDoc ==
    <<Pair("emergency_classifier", StrVal(V100)),
      Pair("translation_model", StrVal(V100)),
      Pair("metadata", ObjVal(768))>>

\* the states the registry file can be in when the programs start: absent,
\* well-formed, cut short, or holding a JSON value that is not an object
InitFiles ==
    {NoFile,
     FileOf(Dump(FullDoc)), FileOf(Dump(BadVersionDoc)), FileOf(Dump(NoEmbeddingDoc)),
     FileOf(SubSeq(Dump(PlainDoc), 1, 4)),
     FileOf(<<Tok("null", "", 0)>>)}

\* sys.argv[1] / model_name
ModelArgs == {"embedding_model", "metadata", "nonexistent_model"}

\* model_name of a direct call
CallModelArgs == {"embedding_model", "nonexistent_model"}

\* new_version of a direct call
CallVersionArgs == {<<"1", ".", "1", ".", "0">>}

\* sys.argv[2] / new_version
VersionArgs ==
    {<<"v", "1", ".", "0", ".", "9">>,
     <<"1", ".", "1", ".", "0">>,
     <<"x">>}

(* ------------------------------- state --------------------------------- *)
VARIABLES
    file,                  \* models/registry.json: [exists, bytes]
    now,                   \* datetime.utcnow()
    result,                \* outcome of the last operation: exit code, output, exception
    nOps,                  \* process runs performed
    model_versions,        \* service.py global
    embedding_model,       \* service.py global
    emergency_classifier,  \* service.py global
    translation_model,     \* service.py global
    started,               \* outcome of the startup hook of the serving process
    streak,                \* successive successful training runs and the document they began with
    upd,                   \* updater processes that run concurrently, step by step
    trainer,               \* a training process whose registry steps interleave with the updaters
    seen,                  \* bytes the last registry read of the service or the trainer returned
    written                \* complete documents the file has held or is being given

vars == <<file, now, result, nOps, model_versions, embedding_model,
          emergency_classifier, translation_model, started, streak,
          upd, trainer, seen, written>>

concVars == <<upd, trainer, written>>

\* identities of the concurrently running updater processes
Writers == {1, 2}

IdleWriter ==
    [pc |-> "idle", by |-> "", model |-> "", version |-> <<>>, buf |-> <<>>,
     pos |-> 0, exit |-> -1, log |-> {}]

IdleTrainer == [pc |-> "idle", version |-> <<>>, child |-> 0]

NoRead == [by |-> "none", bytes |-> <<>>]

serviceVars == <<model_versions, embedding_model, emergency_classifier,
                 translation_model, started>>

NoResult ==
    [op |-> "none", model |-> "", version |-> <<>>, exit |-> -1, log |-> {},
     raised |-> FALSE, auto |-> FALSE, body |-> <<>>]

NoStreak == [n |-> 0, base |-> <<>>]

(* ------------------------- update_registry.py -------------------------- *)
\* an updater that rebuilds the document from the entry it was given
update_model_version_rebuild(f, model_name, new_version, t) ==
    IF ~f.exists
    THEN [exit |-> 1, log |-> {"registry_not_found"}, file |-> f]
    ELSE LET registry == Load(f.bytes)
         IN  IF registry.kind # "dict"
             THEN [exit |-> 1, log |-> {"traceback"}, file |-> f]
             ELSE IF ~HasKey(registry.doc, model_name)
             THEN [exit |-> 1, log |-> {"model_not_found"}, file |-> f]
             ELSE [exit |-> 0, log |-> {"updated"},
                   file |-> FileOf(Dump(<<Pair(model_name, StrVal(new_version)),
                                          Pair("last_updated", TsVal(t))>>))]

\* an updater that leaves last_updated as it found it
update_model_version_untimed(f, model_name, new_version, t) ==
    IF ~f.exists
    THEN [exit |-> 1, log |-> {"registry_not_found"}, file |-> f]
    ELSE LET registry == Load(f.bytes)
         IN  IF registry.kind # "dict"
             THEN [exit |-> 1, log |-> {"traceback"}, file |-> f]
             ELSE IF ~HasKey(registry.doc, model_name)
             THEN [exit |-> 1, log |-> {"model_not_found"}, file |-> f]
             ELSE LET r1 == Put(registry.doc, model_name, StrVal(new_version))
                  IN  [exit |-> 0, log |-> {"updated"}, file |-> FileOf(Dump(r1))]

\* an updater that starts a new document when it finds none
update_model_version_create(f, model_name, new_version, t) ==
    IF ~f.exists
    THEN [exit |-> 0, log |-> {"updated"},
          file |-> FileOf(Dump(<<Pair(model_name, StrVal(new_version)),
                                 Pair("last_updated", TsVal(t))>>))]
    ELSE LET registry == Load(f.bytes)
         IN  IF registry.kind # "dict"
             THEN [exit |-> 1, log |-> {"traceback"}, file |-> f]
             ELSE IF ~HasKey(registry.doc, model_name)
             THEN [exit |-> 1, log |-> {"model_not_found"}, file |-> f]
             ELSE LET r1 == Put(registry.doc, model_name, StrVal(new_version))
                      r2 == Put(r1, "last_updated", TsVal(t))
                  IN  [exit |-> 0, log |-> {"updated"}, file |-> FileOf(Dump(r2))]

\* update_model_version(model_name, new_version) run to completion at time t
update_model_version(f, model_name, new_version, t) ==
    IF ~f.exists
    THEN [exit |-> 1, log |-> {"registry_not_found"}, file |-> f]
    ELSE LET registry == Load(f.bytes)
         IN  IF registry.kind # "dict"
             THEN [exit |-> 1, log |-> {"traceback"}, file |-> f]
             ELSE IF ~HasKey(registry.doc, model_name)
             THEN [exit |-> 1, log |-> {"model_not_found"}, file |-> f]
             ELSE LET r1 == Put(registry.doc, model_name, StrVal(new_version))
                      r2 == Put(r1, "last_updated", TsVal(t))
                  IN  [exit |-> 0, log |-> {"updated"}, file |-> FileOf(Dump(r2))]

\* a command line that refuses a version without the leading v
main_strict(f, model_name, new_version, t) ==
    IF ~StartsWithV(new_version)
    THEN [exit |-> 1, log |-> {"version_should_start_with_v"}, file |-> f]
    ELSE update_model_version(f, model_name, new_version, t)

\* main() with sys.argv = [prog, model_name, new_version]
main(f, model_name, new_version, t) ==
    IF ~StartsWithV(new_version)
    THEN LET u == update_model_version(f, model_name, <<"v">> \o new_version, t)
         IN  [u EXCEPT !.log = @ \cup {"version_should_start_with_v"}]
    ELSE update_model_version(f, model_name, new_version, t)

(* ------------------------- train_embeddings.py ------------------------- *)
\* outcomes of subprocess.run([...], check=True) other than the child's exit code
SpawnOutcomes == {"ok", "oserror"}

\* a trainer that bumps the minor component instead of the patch
bump_plan_minor(f, auto) ==
    IF ~auto \/ ~f.exists THEN [act |-> "skip", version |-> <<>>]
    ELSE LET registry == Load(f.bytes)
             current_version == Get(registry.doc, "embedding_model", StrVal(V100))
             match == ReMatch(current_version.str)
         IN  IF registry.kind # "dict" THEN [act |-> "raise", version |-> <<>>]
             ELSE IF current_version.kind # "str" THEN [act |-> "raise", version |-> <<>>]
             ELSE IF ~match.ok THEN [act |-> "skip", version |-> <<>>]
             ELSE [act |-> "update",
                   version |-> FormatVersion(match.major, match.minor + 1, 0)]

\* train(), from the auto_version_bump test to the computed new_version:
\* what the run decides to do about the registry
bump_plan(f, auto) ==
    IF ~auto \/ ~f.exists THEN [act |-> "skip", version |-> <<>>]
    ELSE LET registry == Load(f.bytes)
             current_version == Get(registry.doc, "embedding_model", StrVal(V100))
             match == ReMatch(current_version.str)
         IN  IF registry.kind # "dict" THEN [act |-> "raise", version |-> <<>>]
             ELSE IF current_version.kind # "str" THEN [act |-> "raise", version |-> <<>>]
             ELSE IF ~match.ok THEN [act |-> "skip", version |-> <<>>]
             ELSE [act |-> "update",
                   version |-> FormatVersion(match.major, match.minor, match.patch + 1)]

\* what train() logs once subprocess.run has returned or raised
train_log(spawn, exit) ==
    IF spawn = "ok" /\ exit = 0 THEN {"model_version_updated"}
    ELSE {"failed_to_update_registry"}

\* the part of HealthEmbeddingTrainer.train() after model.fit() has returned
train(f, auto, t, spawn) ==
    LET plan == bump_plan(f, auto)
        quiet == [raised |-> FALSE, log |-> {"training_complete"}, file |-> f,
                  exit |-> -1, version |-> plan.version]
    IN  IF plan.act = "skip" THEN quiet
        ELSE IF plan.act = "raise" THEN [quiet EXCEPT !.raised = TRUE]
        ELSE IF spawn # "ok" THEN [quiet EXCEPT !.log = @ \cup train_log(spawn, -1)]
        ELSE LET u == main(f, "embedding_model", plan.version, t)
             IN  [raised |-> FALSE,
                  log |-> {"training_complete"} \cup u.log \cup train_log(spawn, u.exit),
                  file |-> u.file,
                  exit |-> u.exit,
                  version |-> plan.version]

(* --------------- test_registry.py: test_version_bump_logic ------------- *)
\* what a bump function hands back: it has no raise statement
Returned(version) == [raised |-> FALSE, ret |-> version]

\* a patch bump that carries into the minor number after 9
bump_patch_rollover(version) ==
    LET match == ReMatch(version)
    IN  IF match.ok
        THEN IF match.patch = 9
             THEN Returned(FormatVersion(match.major, match.minor + 1, 0))
             ELSE Returned(FormatVersion(match.major, match.minor, match.patch + 1))
        ELSE Returned(version)

bump_patch(version) ==
    LET match == ReMatch(version)
    IN  IF match.ok
        THEN Returned(FormatVersion(match.major, match.minor, match.patch + 1))
        ELSE Returned(version)

bump_minor(version) ==
    LET match == ReMatch(version)
    IN  IF match.ok
        THEN Returned(FormatVersion(match.major, match.minor + 1, 0))
        ELSE Returned(version)

bump_major(version) ==
    LET match == ReMatch(version)
    IN  IF match.ok
        THEN Returned(FormatVersion(match.major + 1, 0, 0))
        ELSE Returned(version)

\* the decimal rendering of a number, written digit by digit
Decimal(n) == IF n < 10 THEN <<DigitChar(n)>> ELSE <<DigitChar(n \div 10), DigitChar(n % 10)>>

\* version strings v<M>.<m>.<p> together with the numbers they were written from
NumberedVersions ==
    {[version |-> <<"v">> \o Decimal(M) \o <<".">> \o Decimal(m) \o <<".">> \o Decimal(p),
      parts |-> <<M, m, p>>] : M \in 0..MaxPart, m \in 0..MaxPart, p \in 0..MaxPart}

\* strings that are not of the form v<digits>.<digits>.<digits>
MalformedVersions ==
    {<<"v", "1", ".", "0", ".", "0", "-", "b", "e", "t", "a">>,
     <<"1", ".", "0", ".", "0">>,
     <<"v", "1", ".", "0">>,
     <<"x">>,
     <<>>}

BumpInputs ==
    NumberedVersions \cup {[version |-> s, parts |-> <<>>] : s \in MalformedVersions}

(* ----------------------- emergency_classifier.py ----------------------- *)
\* Query texts are sequences of one-character strings over Latin letters,
\* blanks and apostrophes. The keyword lists of the other scripts hold no
\* such text, so only the English list can match.
EMERGENCY_KEYWORDS ==
    {
     <<"c", "h", "e", "s", "t", " ", "p", "a", "i", "n">>,
     <<"h", "e", "a", "r", "t", " ", "a", "t", "t", "a", "c", "k">>,
     <<"s", "e", "v", "e", "r", "e", " ", "b", "r", "e", "a", "t", "h", "i", "n", "g">>,
     <<"c", "a", "n", "'", "t", " ", "b", "r", "e", "a", "t", "h", "e">>,
     <<"d", "i", "f", "f", "i", "c", "u", "l", "t", "y", " ", "b", "r", "e", "a", "t", "h", "i", "n", "g">>,
     <<"u", "n", "c", "o", "n", "s", "c", "i", "o", "u", "s">>,
     <<"s", "e", "i", "z", "u", "r", "e">>,
     <<"h", "e", "a", "v", "y", " ", "b", "l", "e", "e", "d", "i", "n", "g">>,
     <<"s", "e", "v", "e", "r", "e", " ", "i", "n", "j", "u", "r", "y">>,
     <<"s", "t", "r", "o", "k", "e">>,
     <<"a", "n", "a", "p", "h", "y", "l", "a", "x", "i", "s">>,
     <<"b", "a", "b", "y", " ", "n", "o", "t", " ", "b", "r", "e", "a", "t", "h", "i", "n", "g">>,
     <<"h", "i", "g", "h", " ", "f", "e", "v", "e", "r", " ", "c", "h", "i", "l", "d">>,
     <<"s", "e", "v", "e", "r", "e", " ", "a", "l", "l", "e", "r", "g", "i", "c", " ", "r", "e", "a", "c", "t", "i", "o", "n">>,
     <<"l", "o", "s", "s", " ", "o", "f", " ", "c", "o", "n", "s", "c", "i", "o", "u", "s", "n", "e", "s", "s">>
    }

UpperCase ==
    <<"A", "B", "C", "D", "E", "F", "G", "H", "I", "J", "K", "L", "M", "N", "O", "P", "Q", "R", "S", "T", "U", "V", "W", "X", "Y", "Z">>

LowerCase ==
    <<"a", "b", "c", "d", "e", "f", "g", "h", "i", "j", "k", "l", "m", "n", "o", "p", "q", "r", "s", "t", "u", "v", "w", "x", "y", "z">>

\* str.lower() of one character
LowerChar(c) ==
    IF \E i \in 1..26 : UpperCase[i] = c
    THEN LowerCase[CHOOSE i \in 1..26 : UpperCase[i] = c]
    ELSE c

\* text.lower()
Lower(text) == [i \in 1..Len(text) |-> LowerChar(text[i])]

\* keyword in text
Contains(text, keyword) ==
    \E i \in 0..(Len(text) - Len(keyword)) : SubSeq(text, i + 1, i + Len(keyword)) = keyword

\* a detection that compares the text as it was typed
keyword_based_detection_cased(text) ==
    \E keyword \in EMERGENCY_KEYWORDS : Contains(text, keyword)

keyword_based_detection(text) ==
    LET text_lower == Lower(text)
    IN  \E keyword \in EMERGENCY_KEYWORDS : Contains(text_lower, keyword)

\* probabilities are counted in hundredths
\* self.threshold
Threshold == 75

\* the confidence reported for a keyword match
KeywordConfidence == 90

\* the loop of predict() from text i on: the result tuples, and the texts the
\* keyword detection was called for
RECURSIVE predict_from(_, _, _, _)
predict_from(texts, probabilities, use_keyword_fallback, i) ==
    IF i > Len(texts) THEN [results |-> <<>>, consulted |-> {}]
    ELSE LET emergency_prob == probabilities[i]
             is_emergency == emergency_prob > Threshold
             consult == use_keyword_fallback /\ ~is_emergency
             hit == consult /\ keyword_based_detection(texts[i])
             rest == predict_from(texts, probabilities, use_keyword_fallback, i + 1)
         IN  [results |-> <<[is_emergency |-> is_emergency \/ hit,
                             confidence |-> IF hit THEN KeywordConfidence
                                            ELSE emergency_prob]>> \o rest.results,
              consulted |-> (IF consult THEN {i} ELSE {}) \cup rest.consulted]

\* an argument that is one str or a list of str
OneStr(text) == [isstr |-> TRUE, value |-> text]

ListOf(texts) == [isstr |-> FALSE, value |-> texts]

\* texts = [texts] for a str argument
AsList(arg) == IF arg.isstr THEN <<arg.value>> ELSE arg.value

\* EmergencyClassifier.predict; probabilities[i] is the emergency probability
\* the model gives text i
predict(arg, probabilities, use_keyword_fallback) ==
    predict_from(AsList(arg), probabilities, use_keyword_fallback, 1)

\* query texts, each with whether its lower-cased form holds a keyword
QueryTexts ==
    {
     [text |-> <<"I", " ", "h", "a", "v", "e", " ", "C", "h", "e", "s", "t", " ", "P", "a", "i", "n">>,
      keyword |-> TRUE],
     [text |-> <<"S", "T", "R", "O", "K", "E">>,
      keyword |-> TRUE],
     [text |-> <<"c", "o", "m", "m", "o", "n", " ", "c", "o", "l", "d">>,
      keyword |-> FALSE],
     [text |-> <<"p", "a", "i", "n", " ", "i", "n", " ", "c", "h", "e", "s", "t">>,
      keyword |-> FALSE]
    }

\* emergency probabilities the model may give
Probabilities == {10, 75, 76}

(* ------------------------- translation_model.py ------------------------ *)
\* Texts given to the translation model are sequences of Unicode code points.
LANG_CODES(lang) ==
    CASE lang = "english" -> "en"
      [] lang = "hindi" -> "hi"
      [] lang = "odia" -> "or"
      [] lang = "assamese" -> "as"

\* the character classes, in the order of the dict: [\u0B00-\u0B7F],
\* [\u0900-\u097F], [\u0980-\u09FF]
UNICODE_PATTERNS ==
    <<[lang |-> "odia", first |-> 2816, last |-> 2943],
      [lang |-> "hindi", first |-> 2304, last |-> 2431],
      [lang |-> "assamese", first |-> 2432, last |-> 2559]>>

\* re.search(pattern, text)
Search(pattern, text) ==
    \E i \in 1..Len(text) : pattern.first <= text[i] /\ text[i] <= pattern.last

detect_language(text) ==
    LET found == {k \in 1..Len(UNICODE_PATTERNS) : Search(UNICODE_PATTERNS[k], text)}
    IN  IF found = {} THEN "en"
        ELSE LANG_CODES(UNICODE_PATTERNS[CHOOSE k \in found : \A j \in found : k <= j].lang)

\* a translator that sends every text to the model
skip_translation_never(detected_lang, target_lang) == FALSE

\* if detected_lang == target_lang
skip_translation(detected_lang, target_lang) == detected_lang = target_lang

\* tokenizer.get_lang_id(target_lang), for the languages of LANG_CODES
get_lang_id(lang) ==
    CASE lang = "en" -> 1
      [] lang = "hi" -> 2
      [] lang = "or" -> 3
      [] lang = "as" -> 4

\* what tokenizer.decode gives for the generated sequence; the model's output
\* is not known, it is written here as the text after the target language id
Decoded(text, target_lang) == <<get_lang_id(target_lang)>> \o text

\* the loop of translate() from text i on. modelRaises: the tokenizer or the
\* model raises when it is called. called: the texts given to the model;
\* used: the source language taken for each text
RECURSIVE translate_from(_, _, _, _, _)
translate_from(texts, source_lang, target_lang, modelRaises, i) ==
    IF i > Len(texts)
    THEN [raised |-> FALSE, translated |-> <<>>, called |-> {}, used |-> <<>>]
    ELSE LET text == texts[i]
             detected_lang == IF source_lang = "None" THEN detect_language(text)
                              ELSE source_lang
             rest == translate_from(texts, source_lang, target_lang, modelRaises, i + 1)
             skip == skip_translation(detected_lang, target_lang)
         IN  IF ~skip /\ modelRaises
             THEN [raised |-> TRUE, translated |-> <<>>, called |-> {i},
                   used |-> <<detected_lang>>]
             ELSE [raised |-> rest.raised,
                   translated |-> IF rest.raised THEN <<>>
                                  ELSE <<IF skip THEN text ELSE Decoded(text, target_lang)>>
                                       \o rest.translated,
                   called |-> (IF skip THEN {} ELSE {i}) \cup rest.called,
                   used |-> <<detected_lang>> \o rest.used]

\* TranslationModel.translate
translate(arg, source_lang, target_lang, modelRaises) ==
    LET r == translate_from(AsList(arg), source_lang, target_lang, modelRaises, 1)
    IN  [raised |-> r.raised,
         ret |-> IF r.raised THEN ListOf(<<>>)
                 ELSE IF arg.isstr THEN OneStr(r.translated[1]) ELSE ListOf(r.translated),
         called |-> r.called,
         used |-> r.used]

\* texts to translate, each with the language its characters tell
TranslateTexts ==
    {[text |-> <<104, 105>>, lang |-> "en"],
     [text |-> <<2350, 2369>>, lang |-> "hi"],
     [text |-> <<2860>>, lang |-> "or"],
     [text |-> <<2453>>, lang |-> "as"],
     [text |-> <<2325, 32, 2837>>, lang |-> "or"]}

\* source_lang: None or a language code
SourceLangs == {"None", "en", "hi"}

TargetLangs == {"en", "hi", "or"}

(* --------------------------- embedding_model.py ------------------------ *)
\* Texts given to the embedding model are whole strings: nothing takes them
\* apart. The row of a text stands for the model's vector: one component
\* that names the text and whether it was normalized.
Row(text, normalize) == <<[of |-> text, normalized |-> normalize]>>

\* a slice that leaves out the last text of each batch
BatchShort(texts, i, batch_size) ==
    SubSeq(texts, i + 1, IF i + batch_size - 1 < Len(texts) THEN i + batch_size - 1 ELSE Len(texts))

\* texts[i:i + batch_size]
Batch(texts, i, batch_size) ==
    SubSeq(texts, i + 1, IF i + batch_size < Len(texts) THEN i + batch_size ELSE Len(texts))

\* the loop of encode() from offset i on: the arrays appended to embeddings,
\* and the batches they were computed from
RECURSIVE encode_from(_, _, _, _)
encode_from(texts, batch_size, normalize, i) ==
    IF i >= Len(texts) THEN [embeddings |-> <<>>, batches |-> <<>>]
    ELSE LET batch == Batch(texts, i, batch_size)
             batch_embeddings == [r \in 1..Len(batch) |-> Row(batch[r], normalize)]
             rest == encode_from(texts, batch_size, normalize, i + batch_size)
         IN  [embeddings |-> <<batch_embeddings>> \o rest.embeddings,
              batches |-> <<batch>> \o rest.batches]

\* np.vstack of a non-empty list of arrays
RECURSIVE vstack(_)
vstack(arrays) == IF arrays = <<>> THEN <<>> ELSE Head(arrays) \o vstack(Tail(arrays))

\* the default of the batch_size parameter
DefaultBatchSize == 32

\* EmbeddingModel.encode; np.vstack raises ValueError for an empty list
encode(arg, batch_size, normalize) ==
    LET r == encode_from(AsList(arg), batch_size, normalize, 0)
    IN  [raised |-> r.embeddings = <<>>,
         ret |-> vstack(r.embeddings),
         batches |-> r.batches]

\* texts to embed
EmbedTexts == {"fever", "malaria"}

\* the lists of at most n texts, the empty list among them
EmbedLists(n) == UNION {[1..k -> EmbedTexts] : k \in 0..n}

(* ------------------------------ service.py ----------------------------- *)
\* a version map that gives v1.0.0 for a key the registry lacks
VersionsFromDefaulted(registry) ==
    <<Pair("embedding_model", Get(registry, "embedding_model", StrVal(V100))),
      Pair("emergency_classifier", Get(registry, "emergency_classifier", StrVal(V100))),
      Pair("translation_model", Get(registry, "translation_model", StrVal(V100))),
      Pair("last_updated", Get(registry, "last_updated", StrVal(Unknown)))>>

\* the version map load_models builds from a parsed registry
VersionsFrom(registry) ==
    <<Pair("embedding_model", Get(registry, "embedding_model", StrVal(Unknown))),
      Pair("emergency_classifier", Get(registry, "emergency_classifier", StrVal(Unknown))),
      Pair("translation_model", Get(registry, "translation_model", StrVal(Unknown))),
      Pair("last_updated", Get(registry, "last_updated", StrVal(Unknown)))>>

\* a fallback that reports every model as unknown
DefaultVersionsUnknown ==
    <<Pair("embedding_model", StrVal(Unknown)),
      Pair("emergency_classifier", StrVal(Unknown)),
      Pair("translation_model", StrVal(Unknown)),
      Pair("last_updated", StrVal(Unknown))>>

\* the version map load_models uses when the registry file does not exist
DefaultVersions ==
    <<Pair("embedding_model", StrVal(V100)),
      Pair("emergency_classifier", StrVal(V100)),
      Pair("translation_model", StrVal(V100)),
      Pair("last_updated", StrVal(Unknown))>>

\* which of the configured model paths exist when the service starts
PathSets == {{}, ModelIds}

\* the load step whose constructor raises (0: none)
FailSteps == {0, 2}

\* a load step that constructs no default model when the path is absent
LoadedRefOrNone(id, present) == IF id \in present THEN "loaded" ELSE "None"

\* the model object a load step leaves in its global
LoadedRef(id, present) == IF id \in present THEN "loaded" ELSE "default"

\* load_models(): present = the model paths that exist, failAt = the load step
\* (1..3) whose constructor raises, 0 for none
load_models(f, present, failAt) ==
    LET registry == Load(f.bytes)
        regRaises == f.exists /\ registry.kind # "dict"
        versions == IF ~f.exists THEN DefaultVersions
                    ELSE IF regRaises THEN <<>>
                    ELSE VersionsFrom(registry.doc)
        ref(k, id) == IF regRaises \/ (failAt # 0 /\ failAt <= k) THEN "None"
                      ELSE LoadedRef(id, present)
        raised == regRaises \/ failAt # 0
    IN  [model_versions |-> versions,
         embedding_model |-> ref(1, "embedding_model"),
         emergency_classifier |-> ref(2, "emergency_classifier"),
         translation_model |-> ref(3, "translation_model"),
         raised |-> raised,
         log |-> (IF ~f.exists THEN {"registry_not_found_warning"}
                  ELSE IF regRaises THEN {} ELSE {"registry_loaded"})
                 \cup (IF raised THEN {"error_loading_models"} ELSE {"all_models_loaded"}),
         cause |-> IF regRaises THEN "registry" ELSE IF raised THEN "model" ELSE "none"]

\* what a handler answers: the status code and the body
Response(status, body) == [status |-> status, body |-> body]

\* GET /health
health_check(versions, embedding, classifier, translation) ==
    Response(200, [status |-> "healthy",
                   models |-> [embedding |-> embedding # "None",
                               emergency_classifier |-> classifier # "None",
                               translation |-> translation # "None"],
                   versions |-> versions])

\* GET /versions
get_versions(versions) == Response(200, versions)

\* POST /classify-emergency; probabilities are the model's, modelRaises: the
\* tokenizer or the model raises
classify_emergency(ref, request, probabilities, modelRaises) ==
    IF ref = "None" THEN Response(503, "Emergency classifier not loaded")
    ELSE IF modelRaises THEN Response(500, "Classification error")
    ELSE LET predictions == predict(ListOf(request.texts), probabilities,
                                    request.use_keyword_fallback)
         IN  Response(200, [predictions |-> predictions.results])

\* the batch size generate_embeddings_batch passes to encode
batch_size == 32

\* POST /embed
generate_embeddings(ref, request) ==
    IF ref = "None" THEN Response(503, "Embedding model not loaded")
    ELSE LET embeddings == encode(ListOf(request.texts), DefaultBatchSize, request.normalize)
         IN  IF embeddings.raised THEN Response(500, "Embedding error")
             ELSE Response(200, [embeddings |-> embeddings.ret,
                                 dimension |-> Len(embeddings.ret[1]),
                                 model |-> request.model])

\* POST /embed-batch
generate_embeddings_batch(ref, request) ==
    IF ref = "None" THEN Response(503, "Embedding model not loaded")
    ELSE LET embeddings == encode(ListOf(request.texts), batch_size, request.normalize)
         IN  IF embeddings.raised THEN Response(500, "Batch embedding error")
             ELSE Response(200, [embeddings |-> embeddings.ret,
                                 dimension |-> Len(embeddings.ret[1]),
                                 model |-> request.model])

\* a request body of /embed and /embed-batch
EmbedRequest(texts, normalize) == [texts |-> texts, model |-> "default", normalize |-> normalize]

\* one text more than a batch holds
LongTexts == [i \in 1..(batch_size + 1) |-> IF i % 2 = 1 THEN "fever" ELSE "malaria"]

\* POST /translate; used is the source language translate() took for each text
translate_text(ref, request, modelRaises) ==
    IF ref = "None" THEN Response(503, "Translation model not loaded")
    ELSE LET n == Len(request.texts)
             detected_langs ==
                 IF request.source_lang = "None"
                 THEN [i \in 1..n |-> detect_language(request.texts[i])]
                 ELSE [i \in 1..n |-> request.source_lang]
             translations == translate(ListOf(request.texts), request.source_lang,
                                       request.target_lang, modelRaises)
         IN  IF translations.raised THEN Response(500, "Translation error")
             ELSE Response(200,
                           [translations |-> IF translations.ret.isstr
                                             THEN <<translations.ret.value>>
                                             ELSE translations.ret.value,
                            detected_languages |-> detected_langs,
                            used |-> translations.used])

(* ------------------------------- actions ------------------------------- *)
Init ==
    /\ file \in InitFiles
    /\ now = 0
    /\ result = NoResult
    /\ nOps = 0
    /\ model_versions = <<>>
    /\ embedding_model = "None"
    /\ emergency_classifier = "None"
    /\ translation_model = "None"
    /\ started = "no"
    /\ streak = NoStreak
    /\ upd = [w \in Writers |-> IdleWriter]
    /\ trainer = IdleTrainer
    /\ seen = NoRead
    /\ written = IF file.exists THEN {file.bytes} ELSE {}

\* python update_registry.py <model_name> <new_version>
Main ==
    /\ nOps < MaxOps
    /\ \E model_name \in ModelArgs, new_version \in VersionArgs, t \in now..MaxClock :
          LET u == main(file, model_name, new_version, t)
          IN  /\ file' = u.file
              /\ now' = IF u.exit = 0 THEN t ELSE now
              /\ result' = [op |-> "main", model |-> model_name, version |-> new_version,
                            exit |-> u.exit, log |-> u.log, raised |-> FALSE, auto |-> FALSE, body |-> <<>>]
              /\ streak' = IF u.exit = 0 THEN NoStreak ELSE streak
    /\ nOps' = nOps + 1
    /\ UNCHANGED <<serviceVars, concVars, seen>>

\* python update_registry.py with a wrong number of arguments
MainUsage ==
    /\ nOps < MaxOps
    /\ result' = [NoResult EXCEPT !.op = "main", !.exit = 1, !.log = {"usage"}]
    /\ nOps' = nOps + 1
    /\ UNCHANGED <<file, now, streak, serviceVars, concVars, seen>>

\* a direct call of update_model_version(model_name, new_version)
UpdateModelVersion ==
    /\ nOps < MaxOps
    /\ \E model_name \in CallModelArgs, new_version \in CallVersionArgs, t \in now..MaxClock :
          LET u == update_model_version(file, model_name, new_version, t)
          IN  /\ file' = u.file
              /\ now' = IF u.exit = 0 THEN t ELSE now
              /\ result' = [op |-> "update", model |-> model_name, version |-> new_version,
                            exit |-> u.exit, log |-> u.log, raised |-> FALSE, auto |-> FALSE, body |-> <<>>]
              /\ streak' = IF u.exit = 0 THEN NoStreak ELSE streak
    /\ nOps' = nOps + 1
    /\ UNCHANGED <<serviceVars, concVars, seen>>

\* one training run: HealthEmbeddingTrainer.train()
Train ==
    /\ nOps < MaxOps
    /\ \E auto \in BOOLEAN, t \in now..MaxClock, spawn \in SpawnOutcomes :
          LET r == train(file, auto, t, spawn)
          IN  /\ file' = r.file
              /\ now' = IF r.exit = 0 THEN t ELSE now
              /\ result' = [op |-> "train", model |-> "embedding_model", version |-> r.version,
                            exit |-> r.exit, log |-> r.log, raised |-> r.raised, auto |-> auto, body |-> <<>>]
              /\ streak' = IF r.exit # 0 THEN streak
                           ELSE IF streak.n = 0
                           THEN [n |-> 1, base |-> Load(file.bytes).doc]
                           ELSE [streak EXCEPT !.n = @ + 1]
              /\ seen' = IF auto /\ file.exists
                         THEN [by |-> "train", bytes |-> file.bytes] ELSE seen
    /\ nOps' = nOps + 1
    /\ UNCHANGED <<serviceVars, concVars>>

\* the serving process starts and runs its startup hook
LoadModels ==
    /\ nOps < MaxOps
    /\ \E present \in PathSets, failAt \in FailSteps :
          LET r == load_models(file, present, failAt)
          IN  /\ model_versions' = r.model_versions
              /\ embedding_model' = r.embedding_model
              /\ emergency_classifier' = r.emergency_classifier
              /\ translation_model' = r.translation_model
              /\ started' = IF r.raised THEN "failed_" \o r.cause ELSE "ok"
              /\ result' = [NoResult EXCEPT !.op = "load_models", !.log = r.log,
                                            !.raised = r.raised]
    /\ seen' = IF file.exists THEN [by |-> "load_models", bytes |-> file.bytes] ELSE seen
    /\ nOps' = nOps + 1
    /\ UNCHANGED <<file, now, streak, concVars>>

\* result of calling a method or a handler: its arguments and its answer
Called(name, args, out) ==
    [NoResult EXCEPT !.op = name, !.body = [args |-> args, out |-> out]]

\* what a request leaves as it was: a handler assigns to no global and
\* opens no file
stateVars == <<file, now, nOps, streak, seen, serviceVars, concVars>>

\* requests reach the handlers once the startup hook has returned
Serving == started = "ok"

\* a handler that reads the registry again before it answers
GetVersionsReload ==
    /\ Serving
    /\ model_versions' = IF file.exists /\ Load(file.bytes).kind = "dict"
                         THEN VersionsFrom(Load(file.bytes).doc)
                         ELSE model_versions
    /\ result' = Called("get_versions", <<>>, get_versions(model_versions'))
    /\ UNCHANGED <<file, now, nOps, streak, seen, concVars, embedding_model,
                   emergency_classifier, translation_model, started>>

GetVersions ==
    /\ Serving
    /\ result' = Called("get_versions", <<>>, get_versions(model_versions))
    /\ UNCHANGED stateVars

HealthCheck ==
    /\ Serving
    /\ result' = Called("health_check", <<>>,
                        health_check(model_versions, embedding_model,
                                     emergency_classifier, translation_model))
    /\ UNCHANGED stateVars

\* Request bodies sent to the running service. Here the models answer every
\* call; the handlers' answers to other bodies are those of the function
\* applications further down.
EmbedBodies == {EmbedRequest(<<"fever", "malaria">>, TRUE)}

GenerateEmbeddings ==
    /\ Serving
    /\ \E request \in EmbedBodies :
          result' = Called("generate_embeddings", request,
                           generate_embeddings(embedding_model, request))
    /\ UNCHANGED stateVars

GenerateEmbeddingsBatch ==
    /\ Serving
    /\ \E request \in EmbedBodies :
          result' = Called("generate_embeddings_batch", request,
                           generate_embeddings_batch(embedding_model, request))
    /\ UNCHANGED stateVars

ClassifyBodies ==
    {[texts |-> <<(<<"S", "T", "R", "O", "K", "E">>)>>, use_keyword_fallback |-> TRUE]}

ClassifyEmergency ==
    /\ Serving
    /\ \E request \in ClassifyBodies :
          result' = Called("classify_emergency", request,
                           classify_emergency(emergency_classifier, request, <<10>>, FALSE))
    /\ UNCHANGED stateVars

TranslateBodies ==
    {[texts |-> <<(<<2350, 2369>>), (<<104, 105>>)>>, source_lang |-> "None",
      target_lang |-> "en"]}

TranslateText ==
    /\ Serving
    /\ \E request \in TranslateBodies :
          result' = Called("translate_text", request,
                           translate_text(translation_model, request, FALSE))
    /\ UNCHANGED stateVars

Next ==
    \/ Main
    \/ MainUsage
    \/ UpdateModelVersion
    \/ Train
    \/ LoadModels
    \/ HealthCheck
    \/ GetVersions
    \/ GenerateEmbeddings
    \/ GenerateEmbeddingsBatch
    \/ ClassifyEmergency
    \/ TranslateText

Spec == Init /\ [][Next]_vars

(* --------------------- concurrent runs, step by step -------------------- *)
\* model_name of the updaters that race
ConcModelArgs == {"embedding_model", "emergency_classifier"}

\* new_version of the updaters that race
ConcVersionArgs ==
    {<<"v", "1", ".", "0", ".", "9">>, <<"v", "1", ".", "0", ".", "1", "0">>}

\* update_model_version up to line 41: the process has read the file and either
\* exited with code 1 or holds the document it is going to dump
Begun(by, model_name, new_version, u) ==
    IF u.exit = 0
    THEN [pc |-> "open", by |-> by, model |-> model_name, version |-> new_version,
          buf |-> u.file.bytes, pos |-> 0, exit |-> -1, log |-> u.log]
    ELSE [pc |-> "done", by |-> by, model |-> model_name, version |-> new_version,
          buf |-> <<>>, pos |-> 0, exit |-> 1, log |-> u.log]

\* an updater process started from the command line reads the registry
UBegin(w) ==
    /\ upd[w].pc = "idle"
    /\ nOps < MaxOps
    /\ \E model_name \in ConcModelArgs, new_version \in ConcVersionArgs, t \in now..MaxClock :
          LET u == main(file, model_name, new_version, t)
          IN  /\ upd' = [upd EXCEPT ![w] = Begun("cli", model_name, new_version, u)]
              /\ now' = IF u.exit = 0 THEN t ELSE now
              /\ result' = IF u.exit = 0 THEN result
                           ELSE [op |-> "main", model |-> model_name, version |-> new_version,
                                 exit |-> 1, log |-> u.log, raised |-> FALSE, auto |-> FALSE, body |-> <<>>]
    /\ nOps' = nOps + 1
    /\ UNCHANGED <<file, streak, serviceVars, trainer, seen, written>>

\* open(registry_path, 'w') truncates the file
UOpen(w) ==
    /\ upd[w].pc = "open"
    /\ file' = Truncate(file)
    /\ upd' = [upd EXCEPT ![w].pc = "write"]
    /\ written' = written \cup {upd[w].buf}
    /\ UNCHANGED <<now, result, nOps, streak, serviceVars, trainer, seen>>

\* json.dump / close: the file object writes its next buffer at its own offset
UWrite(w) ==
    /\ upd[w].pc = "write"
    /\ LET buf == upd[w].buf
           pos == upd[w].pos
           last == IF pos + BufferSize < Len(buf) THEN pos + BufferSize ELSE Len(buf)
       IN  /\ file' = FileOf(WriteAt(file.bytes, pos, SubSeq(buf, pos + 1, last)))
           /\ upd' = [upd EXCEPT ![w].pos = last,
                                 ![w].pc = IF last = Len(buf) THEN "done" ELSE "write",
                                 ![w].exit = IF last = Len(buf) THEN 0 ELSE -1]
           /\ result' = IF last = Len(buf) /\ upd[w].by = "cli"
                        THEN [op |-> "main", model |-> upd[w].model,
                              version |-> upd[w].version, exit |-> 0, log |-> upd[w].log,
                              raised |-> FALSE, auto |-> FALSE, body |-> <<>>]
                        ELSE result
    /\ UNCHANGED <<now, nOps, streak, serviceVars, trainer, seen, written>>

\* train() reads the registry and computes the bumped version
TrainRead ==
    /\ trainer.pc = "idle"
    /\ nOps < MaxOps
    /\ \E auto \in BOOLEAN :
          LET plan == bump_plan(file, auto)
          IN  /\ trainer' = [trainer EXCEPT !.pc = IF plan.act = "update" THEN "spawn" ELSE "done",
                                            !.version = plan.version]
              /\ seen' = IF auto /\ file.exists
                         THEN [by |-> "train", bytes |-> file.bytes] ELSE seen
              /\ result' = IF plan.act = "update" THEN result
                           ELSE [op |-> "train", model |-> "embedding_model",
                                 version |-> <<>>, exit |-> -1, log |-> {"training_complete"},
                                 raised |-> plan.act = "raise", auto |-> auto, body |-> <<>>]
    /\ nOps' = nOps + 1
    /\ UNCHANGED <<file, now, streak, serviceVars, upd, written>>

\* train() runs update_registry.py as a child process
TrainSpawn ==
    /\ trainer.pc = "spawn"
    /\ \E spawn \in SpawnOutcomes :
          IF spawn # "ok"
          THEN /\ trainer' = [trainer EXCEPT !.pc = "done"]
               /\ result' = [op |-> "train", model |-> "embedding_model",
                             version |-> trainer.version, exit |-> -1,
                             log |-> {"training_complete"} \cup train_log(spawn, -1),
                             raised |-> FALSE, auto |-> TRUE, body |-> <<>>]
               /\ UNCHANGED <<upd, now, nOps>>
          ELSE /\ nOps < MaxOps
               /\ \E w \in Writers, t \in now..MaxClock :
                     LET u == main(file, "embedding_model", trainer.version, t)
                     IN  /\ upd[w].pc = "idle"
                         /\ upd' = [upd EXCEPT ![w] =
                                       Begun("train", "embedding_model", trainer.version, u)]
                         /\ now' = IF u.exit = 0 THEN t ELSE now
                         /\ trainer' = [trainer EXCEPT !.pc = "wait", !.child = w]
               /\ nOps' = nOps + 1
               /\ UNCHANGED result
    /\ UNCHANGED <<file, streak, serviceVars, seen, written>>

\* subprocess.run returns: train() logs the outcome and finishes
TrainFinish ==
    /\ trainer.pc = "wait"
    /\ upd[trainer.child].pc = "done"
    /\ trainer' = [trainer EXCEPT !.pc = "done"]
    /\ result' = [op |-> "train", model |-> "embedding_model", version |-> trainer.version,
                  exit |-> upd[trainer.child].exit,
                  log |-> {"training_complete"} \cup upd[trainer.child].log
                          \cup train_log("ok", upd[trainer.child].exit),
                  raised |-> FALSE, auto |-> TRUE, body |-> <<>>]
    /\ UNCHANGED <<file, now, nOps, streak, serviceVars, upd, seen, written>>

\* the concurrent runs start from a well-formed registry
InitConc ==
    /\ Init
    /\ file = FileOf(Dump(FullDoc))

NextConc ==
    \/ \E w \in Writers : UBegin(w)
    \/ \E w \in Writers : UOpen(w)
    \/ \E w \in Writers : UWrite(w)
    \/ TrainRead
    \/ TrainSpawn
    \/ TrainFinish
    \/ LoadModels

SpecConc == InitConc /\ [][NextConc]_vars

(* ------------------- the functions applied to inputs ------------------- *)
\* Each behaviour applies one function to one input: a function application
\* depends on nothing that went before it.
\* result of applying a function: its argument in version, what it handed
\* back in body
Applied(name, inp, out) ==
    [NoResult EXCEPT !.op = name, !.version = inp.version,
                     !.body = [parts |-> inp.parts, raised |-> out.raised, ret |-> out.ret]]

BumpPatch ==
    /\ result = NoResult
    /\ \E inp \in BumpInputs : result' = Applied("bump_patch", inp, bump_patch(inp.version))
    /\ UNCHANGED stateVars

BumpMinor ==
    /\ result = NoResult
    /\ \E inp \in BumpInputs : result' = Applied("bump_minor", inp, bump_minor(inp.version))
    /\ UNCHANGED stateVars

BumpMajor ==
    /\ result = NoResult
    /\ \E inp \in BumpInputs : result' = Applied("bump_major", inp, bump_major(inp.version))
    /\ UNCHANGED stateVars

\* the non-empty lists of at most n members of S
ListsUpTo(S, n) == UNION {[1..k -> S] : k \in 1..n}

\* a query text and the emergency probability the model gives it
Queries == [text : {q.text : q \in QueryTexts}, prob : Probabilities]

TextsOf(items) == [i \in 1..Len(items) |-> items[i].text]

ProbsOf(items) == [i \in 1..Len(items) |-> items[i].prob]

\* EmergencyClassifier.predict on a list of queries
Predict ==
    /\ result = NoResult
    /\ \E items \in ListsUpTo(Queries, MaxTexts), use_keyword_fallback \in BOOLEAN :
          result' = Called("predict",
                           [texts |-> ListOf(TextsOf(items)), probabilities |-> ProbsOf(items),
                            use_keyword_fallback |-> use_keyword_fallback],
                           predict(ListOf(TextsOf(items)), ProbsOf(items), use_keyword_fallback))
    /\ UNCHANGED stateVars

\* EmergencyClassifier.predict on one query given as a str
PredictStr ==
    /\ result = NoResult
    /\ \E q \in Queries, use_keyword_fallback \in BOOLEAN :
          result' = Called("predict",
                           [texts |-> OneStr(q.text), probabilities |-> <<q.prob>>,
                            use_keyword_fallback |-> use_keyword_fallback],
                           predict(OneStr(q.text), <<q.prob>>, use_keyword_fallback))
    /\ UNCHANGED stateVars

\* the texts of a list of labelled texts
Texts(items) == [i \in 1..Len(items) |-> items[i].text]

\* TranslationModel.translate on a list of texts
Translate ==
    /\ result = NoResult
    /\ \E items \in ListsUpTo(TranslateTexts, MaxTexts), source_lang \in SourceLangs,
          target_lang \in TargetLangs, modelRaises \in BOOLEAN :
          result' = Called("translate",
                           [texts |-> ListOf(Texts(items)), source_lang |-> source_lang,
                            target_lang |-> target_lang],
                           translate(ListOf(Texts(items)), source_lang, target_lang, modelRaises))
    /\ UNCHANGED stateVars

\* TranslationModel.translate on one text given as a str
TranslateStr ==
    /\ result = NoResult
    /\ \E item \in TranslateTexts, source_lang \in SourceLangs,
          target_lang \in TargetLangs, modelRaises \in BOOLEAN :
          result' = Called("translate",
                           [texts |-> OneStr(item.text), source_lang |-> source_lang,
                            target_lang |-> target_lang],
                           translate(OneStr(item.text), source_lang, target_lang, modelRaises))
    /\ UNCHANGED stateVars

\* the /translate handler of a service whose translation model is loaded
TranslateRequest ==
    /\ result = NoResult
    /\ \E items \in ListsUpTo(TranslateTexts, MaxTexts), source_lang \in SourceLangs,
          target_lang \in TargetLangs, modelRaises \in BOOLEAN :
          LET request == [texts |-> Texts(items), source_lang |-> source_lang,
                          target_lang |-> target_lang]
          IN  result' = Called("translate_text", request,
                               translate_text("loaded", request, modelRaises))
    /\ UNCHANGED stateVars

\* EmbeddingModel.encode on a list of texts
Encode ==
    /\ result = NoResult
    /\ \E texts \in EmbedLists(MaxRows), size \in 1..MaxBatchSize, normalize \in BOOLEAN :
          result' = Called("encode",
                           [texts |-> ListOf(texts), batch_size |-> size, normalize |-> normalize],
                           encode(ListOf(texts), size, normalize))
    /\ UNCHANGED stateVars

\* EmbeddingModel.encode on one text given as a str
EncodeStr ==
    /\ result = NoResult
    /\ \E text \in EmbedTexts, size \in 1..MaxBatchSize, normalize \in BOOLEAN :
          result' = Called("encode",
                           [texts |-> OneStr(text), batch_size |-> size, normalize |-> normalize],
                           encode(OneStr(text), size, normalize))
    /\ UNCHANGED stateVars

\* the /embed-batch handler of a service whose embedding model is loaded
EmbedBatchRequest ==
    /\ result = NoResult
    /\ \E texts \in EmbedLists(MaxRows) \cup {LongTexts}, normalize \in BOOLEAN :
          result' = Called("generate_embeddings_batch", EmbedRequest(texts, normalize),
                           generate_embeddings_batch("loaded", EmbedRequest(texts, normalize)))
    /\ UNCHANGED stateVars

\* The handlers are plain functions of the module: they can be called before
\* the startup hook has run (the globals are then None) and after it has
\* returned, any number of times. A startup hook that raised ends the process.
Posts == {"POST /embed", "POST /embed-batch", "POST /classify-emergency", "POST /translate"}

\* the last operation was none, a start of the service, or a request
ServiceRun == result.op \in {"none", "load_models", "health_check"} \cup Posts

Answering == ServiceRun /\ started \in {"no", "ok"}

StartService == ServiceRun /\ LoadModels

PostEmbed ==
    /\ Answering
    /\ \E texts \in EmbedLists(1), normalize \in BOOLEAN :
          result' = Called("POST /embed", EmbedRequest(texts, normalize),
                           generate_embeddings(embedding_model, EmbedRequest(texts, normalize)))
    /\ UNCHANGED stateVars

PostEmbedBatch ==
    /\ Answering
    /\ \E texts \in EmbedLists(1), normalize \in BOOLEAN :
          result' = Called("POST /embed-batch", EmbedRequest(texts, normalize),
                           generate_embeddings_batch(embedding_model,
                                                     EmbedRequest(texts, normalize)))
    /\ UNCHANGED stateVars

PostClassify ==
    /\ Answering
    /\ \E request \in ClassifyBodies, prob \in Probabilities, modelRaises \in BOOLEAN :
          result' = Called("POST /classify-emergency", request,
                           classify_emergency(emergency_classifier, request,
                                              <<prob>>, modelRaises))
    /\ UNCHANGED stateVars

PostTranslate ==
    /\ Answering
    /\ \E request \in TranslateBodies, modelRaises \in BOOLEAN :
          result' = Called("POST /translate", request,
                           translate_text(translation_model, request, modelRaises))
    /\ UNCHANGED stateVars

InitFn == Init /\ file = NoFile

NextFn ==
    \/ BumpPatch
    \/ BumpMinor
    \/ BumpMajor
    \/ Predict
    \/ PredictStr
    \/ Translate
    \/ TranslateStr
    \/ TranslateRequest
    \/ Encode
    \/ EncodeStr
    \/ EmbedBatchRequest
    \/ StartService
    \/ HealthCheck
    \/ PostEmbed
    \/ PostEmbedBatch
    \/ PostClassify
    \/ PostTranslate

SpecFn == InitFn /\ [][NextFn]_vars

(* ------------------------------- claims -------------------------------- *)
\* the serving process has just run its startup hook
JustStarted == result.op = "load_models"

\* C7: when no registry document exists, the startup hook raises nothing on
\* account of the registry and the version map gives v1.0.0 for each of the
\* three model identifiers
C7_MissingDocumentFallback ==
    (JustStarted /\ ~file.exists) =>
        /\ started # "failed_registry"
        /\ \A id \in ModelIds :
              HasKey(model_versions, id) /\ Get(model_versions, id, StrVal(<<>>)) = StrVal(V100)

C7_Witness == JustStarted /\ ~file.exists /\ started = "ok"

(* ---------------------- vocabulary of the claims ----------------------- *)
\* the parsed registry document of a file that holds one
DocOf(f) == Load(f.bytes).doc

WellFormed(f) == f.exists /\ Load(f.bytes).kind = "dict"

\* the model entries of a document: every key except the two document fields
Entries(d) == Keys(d) \ {"metadata", "last_updated"}

\* every model entry is a string of the form v<digits>.<digits>.<digits>
EntriesValid(f) ==
    /\ WellFormed(f)
    /\ \A k \in Entries(DocOf(f)) :
          LET v == Get(DocOf(f), k, StrVal(<<>>))
          IN  v.kind = "str" /\ version_pattern(v.str)

\* the step is one run of the command-line updater or one direct call
UpdateStep == nOps' # nOps /\ result'.op \in {"main", "update"} /\ result'.log # {"usage"}

\* the step is one run of an updating operation that reports success
SuccessStep == nOps' # nOps /\ result'.op \in {"main", "update", "train"} /\ result'.exit = 0

\* C1: once every model entry matches the version pattern, every model entry
\* of the persisted document matches it after any update operation
C1_FormatInvariant == [][EntriesValid(file) => EntriesValid(file')]_vars

\* C2: a successful update of a model entry leaves every other model entry and
\* the metadata mapping of the persisted document as they were
C2_Isolation ==
    [][(SuccessStep /\ WellFormed(file) /\ result'.model \in Entries(DocOf(file))) =>
          /\ WellFormed(file')
          /\ \A k \in Keys(DocOf(file)) \ {result'.model, "last_updated"} :
                /\ HasKey(DocOf(file'), k)
                /\ Get(DocOf(file'), k, StrVal(<<>>)) = Get(DocOf(file), k, StrVal(<<>>))
          /\ Keys(DocOf(file')) = Keys(DocOf(file)) \cup {"last_updated"}]_vars

C2_Witness ==
    /\ result.op = "main"
    /\ result.exit = 0
    /\ result.model = "embedding_model"
    /\ WellFormed(file)
    /\ Get(DocOf(file), "embedding_model", StrVal(<<>>)) = StrVal(<<"v", "1", ".", "0", ".", "9">>)
    /\ Get(DocOf(file), "metadata", StrVal(<<>>)) = ObjVal(768)
    /\ Get(DocOf(file), "emergency_classifier", StrVal(<<>>)) = StrVal(V100)

\* C3: an update whose model_id is not a model entry of the document fails
\* with the unknown-model error, exit code 1, and leaves the file as it was
C3_UnknownModelRejected ==
    [][(UpdateStep /\ WellFormed(file) /\ result'.model \notin Entries(DocOf(file))) =>
          /\ result'.exit = 1
          /\ "model_not_found" \in result'.log
          /\ file' = file]_vars

\* C4: a direct update of an existing model entry with a new_version that does
\* not match the version pattern fails and leaves the file as it was
C4_InvalidVersionRejected ==
    [][(UpdateStep /\ result'.op = "update" /\ WellFormed(file)
          /\ result'.model \in Entries(DocOf(file))
          /\ ~version_pattern(result'.version)) =>
          /\ result'.exit = 1
          /\ file' = file]_vars

\* C5: every whole-document read of the service or the trainer returns a
\* complete document: the one before or the one after an update
C5_AtomicWrite == seen.by # "none" => seen.bytes \in written

\* C6: once two racing updaters have both finished, the file is well-formed
\* and is exactly the document one of them wrote
C6_LastWriterWins ==
    (\A w \in Writers : upd[w].pc = "done" /\ upd[w].exit = 0) =>
        /\ WellFormed(file)
        /\ \E w \in Writers : file.bytes = upd[w].buf

\* C8: when the registry file exists but is not a well-formed document, the
\* startup hook does not fail on it and serves v1.0.0 for every model
C8_CorruptDocumentFallback ==
    (JustStarted /\ file.exists /\ ~WellFormed(file)) =>
        /\ started # "failed_registry"
        /\ \A id \in ModelIds :
              HasKey(model_versions, id) /\ Get(model_versions, id, StrVal(<<>>)) = StrVal(V100)

\* C9: a training run with auto_version_bump that does not record the new
\* version still completes normally and logs a warning
C9_WriteFailureSurfaced ==
    (result.op = "train" /\ result.auto /\ "model_version_updated" \notin result.log) =>
        /\ ~result.raised
        /\ "failed_to_update_registry" \in result.log

\* C10: after n successive training runs that recorded a version, starting
\* from a stored vM.m.p, the registry holds vM.m.(p+n) for embedding_model and
\* the other model entries are those the runs began with
C10_VersionProgression ==
    LET was == Get(streak.base, "embedding_model", StrVal(<<>>)).str
        is  == Get(DocOf(file), "embedding_model", StrVal(<<>>)).str
    IN  (streak.n > 0 /\ version_pattern(was)) =>
            /\ WellFormed(file)
            /\ version_pattern(is)
            /\ ReMatch(is).major = ReMatch(was).major
            /\ ReMatch(is).minor = ReMatch(was).minor
            /\ ReMatch(is).patch = ReMatch(was).patch + streak.n
            /\ \A id \in ModelIds \ {"embedding_model"} :
                  /\ HasKey(DocOf(file), id) = HasKey(streak.base, id)
                  /\ Get(DocOf(file), id, StrVal(<<>>)) = Get(streak.base, id, StrVal(<<>>))

C10_Witness ==
    /\ streak.n = 2
    /\ result.op = "train"
    /\ WellFormed(file)
    /\ Get(DocOf(file), "embedding_model", StrVal(<<>>)) = StrVal(<<"v", "1", ".", "0", ".", "2">>)

(* ------------------------- the bump functions -------------------------- *)
\* a bump function has just been applied
Bumped == result.op \in {"bump_patch", "bump_minor", "bump_major"}

\* the version string written from three numbers
VersionOf(M, m, p) == <<"v">> \o Decimal(M) \o <<".">> \o Decimal(m) \o <<".">> \o Decimal(p)

\* the result the bump policy asks for, from the numbers of the argument
Expected(op, q) ==
    IF op = "bump_patch" THEN VersionOf(q[1], q[2], q[3] + 1)
    ELSE IF op = "bump_minor" THEN VersionOf(q[1], q[2] + 1, 0)
    ELSE VersionOf(q[1] + 1, 0, 0)

\* C11: for all numbers M, m, p, bump_patch(vM.m.p) = vM.m.(p+1) with no carry
\* into the minor number, bump_minor(vM.m.p) = vM.(m+1).0 and
\* bump_major(vM.m.p) = v(M+1).0.0; so v1.0.9 gives v1.0.10, v2.9.3 gives
\* v2.10.0 and v9.9.9 gives v10.0.0
C11_BumpCorrectness ==
    (Bumped /\ result.body.parts # <<>>) =>
        /\ ~result.body.raised
        /\ result.body.ret = Expected(result.op, result.body.parts)
        /\ (result.op = "bump_patch" /\ result.version = <<"v", "1", ".", "0", ".", "9">>)
              => result.body.ret = <<"v", "1", ".", "0", ".", "1", "0">>
        /\ (result.op = "bump_minor" /\ result.version = <<"v", "2", ".", "9", ".", "3">>)
              => result.body.ret = <<"v", "2", ".", "1", "0", ".", "0">>
        /\ (result.op = "bump_major" /\ result.version = <<"v", "9", ".", "9", ".", "9">>)
              => result.body.ret = <<"v", "1", "0", ".", "0", ".", "0">>

C11_Witness ==
    /\ result.op = "bump_patch"
    /\ result.version = <<"v", "1", ".", "0", ".", "9">>
    /\ result.body.ret = <<"v", "1", ".", "0", ".", "1", "0">>

\* the whole string has the form v<digits>.<digits>.<digits>
FullMatch(s) == ReMatch(s).ok /\ ReMatch(s).rest = <<>>

\* C12: a bump function given a string that is not wholly of the form
\* v<digits>.<digits>.<digits> fails with an invalid-version error
C12_BumpRejectsMalformed ==
    (Bumped /\ ~FullMatch(result.version)) => result.body.raised

(* ------------------------ the updater, continued ----------------------- *)
\* the last_updated field of the persisted document, if it has one
LastUpdated(f) ==
    IF WellFormed(f) /\ HasKey(DocOf(f), "last_updated")
    THEN Get(DocOf(f), "last_updated", StrVal(<<>>))
    ELSE [kind |-> "none", str |-> <<>>, num |-> -1]

\* C13: every successful update sets last_updated to the current time and no
\* other step changes it; the value a successful update writes is not earlier
\* than the one it replaces
C13_LastUpdated ==
    [][/\ SuccessStep =>
             /\ LastUpdated(file').kind = "ts"
             /\ LastUpdated(file').num = now'
             /\ now' >= now
             /\ LastUpdated(file).kind = "ts" => LastUpdated(file').num >= LastUpdated(file).num
       /\ ~SuccessStep => LastUpdated(file') = LastUpdated(file)]_vars

C13_Witness ==
    /\ result.op = "update"
    /\ result.exit = 0
    /\ nOps = 2
    /\ now = 1
    /\ LastUpdated(file).kind = "ts"
    /\ LastUpdated(file).num = 1

\* the step is one run of the command line with a model name the document has
MainOnExisting ==
    /\ nOps' # nOps
    /\ result'.op = "main"
    /\ result'.log # {"usage"}
    /\ WellFormed(file)
    /\ HasKey(DocOf(file), result'.model)

\* C14: the command line given an existing model name stores the version
\* argument unchanged when it begins with v and otherwise prints a warning and
\* stores v followed by the argument; either way it exits with code 0 and the
\* confirmation message
C14_AutoPrefix ==
    [][MainOnExisting =>
          LET arg == result'.version
              stored == Get(DocOf(file'), result'.model, StrVal(<<>>))
              warned == "version_should_start_with_v" \in result'.log
          IN  /\ result'.exit = 0
              /\ "updated" \in result'.log
              /\ WellFormed(file')
              /\ IF arg # <<>> /\ Head(arg) = "v"
                 THEN stored = StrVal(arg) /\ ~warned
                 ELSE stored = StrVal(<<"v">> \o arg) /\ warned]_vars

C14_Witness ==
    /\ result.op = "main"
    /\ result.exit = 0
    /\ result.model = "embedding_model"
    /\ result.version = <<"1", ".", "1", ".", "0">>
    /\ "version_should_start_with_v" \in result.log
    /\ Get(DocOf(file), "embedding_model", StrVal(<<>>)) = StrVal(<<"v", "1", ".", "1", ".", "0">>)

\* C15: an update that finds no registry document ends with exit code 1 and a
\* diagnostic and creates none; no step deletes the document or creates one
\* that was absent
C15_MissingDocument ==
    [][/\ file'.exists = file.exists
       /\ (UpdateStep /\ ~file.exists) =>
             /\ result'.exit = 1
             /\ "registry_not_found" \in result'.log
             /\ file' = file]_vars

C15_Witness ==
    /\ result.op \in {"main", "update"}
    /\ result.exit = 1
    /\ "registry_not_found" \in result.log
    /\ ~file.exists

(* ----------------------- the emergency classifier ---------------------- *)
\* the lower-cased text holds an emergency keyword, as listed with the texts
HoldsKeyword(text) == \E q \in QueryTexts : q.text = text /\ q.keyword

\* C18: predict gives one tuple per text, in order; is_emergency is (model
\* probability > threshold) or (use_keyword_fallback and the lower-cased text
\* holds a keyword); the keyword detection is called only for texts the model
\* calls non-emergency and only with use_keyword_fallback, it never turns an
\* emergency into a non-emergency, and a result it overrides has confidence
\* 0.90; every other result is the model's
C18_KeywordFallback ==
    result.op = "predict" =>
        LET a == result.body.args
            texts == IF a.texts.isstr THEN <<a.texts.value>> ELSE a.texts.value
            out == result.body.out
        IN  /\ Len(out.results) = Len(texts)
            /\ \A i \in 1..Len(texts) :
                  LET by_model == a.probabilities[i] > 75
                      by_keyword == a.use_keyword_fallback /\ HoldsKeyword(texts[i])
                      r == out.results[i]
                  IN  /\ r.is_emergency = (by_model \/ by_keyword)
                      /\ by_model => r.is_emergency
                      /\ r.confidence = IF ~by_model /\ by_keyword THEN 90
                                        ELSE a.probabilities[i]
                      /\ (i \in out.consulted) = (a.use_keyword_fallback /\ ~by_model)

C18_Witness ==
    /\ result.op = "predict"
    /\ result.body.args.use_keyword_fallback
    /\ Len(result.body.out.results) = 2
    /\ result.body.args.probabilities = <<10, 76>>
    /\ result.body.out.results[1] = [is_emergency |-> TRUE, confidence |-> 90]
    /\ result.body.out.results[2] = [is_emergency |-> TRUE, confidence |-> 76]
    /\ result.body.out.consulted = {1}

(* ------------------------- the translation model ----------------------- *)
\* the language the characters of a text tell, as listed with the texts
LangOf(text) == (CHOOSE q \in TranslateTexts : q.text = text).lang

\* the source language of a text: the one given, or the detected one
SourceOf(text, source_lang) == IF source_lang = "None" THEN LangOf(text) ELSE source_lang

\* C19: translate never gives the model a text whose source language (the
\* given one, or the detected one when none is given) is the target language
\* and returns that text unchanged; a list gives a list with one output per
\* text in order, a single string gives a single string; the /translate
\* handler's detected_languages has one entry per text, the source language
\* translate used for it
C19_TranslationSkipAndShape ==
    /\ result.op = "translate" =>
          LET a == result.body.args
              texts == IF a.texts.isstr THEN <<a.texts.value>> ELSE a.texts.value
              out == result.body.out
              outs == IF out.ret.isstr THEN <<out.ret.value>> ELSE out.ret.value
          IN  /\ \A i \in 1..Len(texts) :
                    SourceOf(texts[i], a.source_lang) = a.target_lang => i \notin out.called
              /\ ~out.raised =>
                    /\ out.ret.isstr = a.texts.isstr
                    /\ Len(outs) = Len(texts)
                    /\ \A i \in 1..Len(texts) :
                          IF SourceOf(texts[i], a.source_lang) = a.target_lang
                          THEN outs[i] = texts[i]
                          ELSE i \in out.called /\ outs[i] = Decoded(texts[i], a.target_lang)
    /\ (result.op = "translate_text" /\ result.body.out.status = 200) =>
          LET a == result.body.args
              body == result.body.out.body
          IN  /\ Len(body.translations) = Len(a.texts)
              /\ Len(body.detected_languages) = Len(a.texts)
              /\ Len(body.used) = Len(a.texts)
              /\ \A i \in 1..Len(a.texts) :
                    /\ body.detected_languages[i] = body.used[i]
                    /\ body.detected_languages[i] = SourceOf(a.texts[i], a.source_lang)

C19_Witness ==
    /\ result.op = "translate"
    /\ result.body.args.source_lang = "None"
    /\ result.body.args.target_lang = "hi"
    /\ result.body.args.texts = ListOf(<<(<<2350, 2369>>), (<<104, 105>>)>>)
    /\ result.body.out.ret = ListOf(<<(<<2350, 2369>>), (<<2, 104, 105>>)>>)
    /\ result.body.out.called = {2}

(* -------------------------- the embedding model ------------------------ *)
\* C20: for a non-empty list of texts and a batch_size of at least 1, encode
\* cuts the list into consecutive batches of at most batch_size texts that
\* cover every text once, and returns one row per text in the order of the
\* texts; so does /embed-batch
C20_EmbeddingOrder ==
    /\ (result.op = "encode" /\ AsList(result.body.args.texts) # <<>>) =>
          LET a == result.body.args
              texts == IF a.texts.isstr THEN <<a.texts.value>> ELSE a.texts.value
              n == Len(texts)
              out == result.body.out
          IN  /\ ~out.raised
              /\ Len(out.batches) = (n + a.batch_size - 1) \div a.batch_size
              /\ \A b \in 1..Len(out.batches) :
                    /\ Len(out.batches[b]) >= 1
                    /\ Len(out.batches[b]) <= a.batch_size
                    /\ \A r \in 1..Len(out.batches[b]) :
                          /\ (b - 1) * a.batch_size + r <= n
                          /\ out.batches[b][r] = texts[(b - 1) * a.batch_size + r]
                    /\ b < Len(out.batches) => Len(out.batches[b]) = a.batch_size
              /\ Len(out.ret) = n
              /\ \A i \in 1..n : out.ret[i][1].of = texts[i]
    /\ (result.op = "generate_embeddings_batch" /\ result.body.args.texts # <<>>) =>
          LET texts == result.body.args.texts
              out == result.body.out
          IN  /\ out.status = 200
              /\ Len(out.body.embeddings) = Len(texts)
              /\ \A i \in 1..Len(texts) : out.body.embeddings[i][1].of = texts[i]

C20_Witness ==
    /\ result.op = "encode"
    /\ result.body.args.batch_size = 2
    /\ result.body.args.texts =
          ListOf(<<"fever", "malaria", "malaria", "fever", "fever">>)
    /\ result.body.out.batches =
          <<(<<"fever", "malaria">>), (<<"malaria", "fever">>), (<<"fever">>)>>
    /\ Len(result.body.out.ret) = 5

(* -------------------------- the running service ------------------------ *)
\* the version map a response carries
Served(r) == IF r.op = "get_versions" THEN r.body.out.body ELSE r.body.out.body.versions

\* C16: the version map of GET /versions and of GET /health gives, for every
\* field the registry document on disk has, the value the document has
C16_ServedVersionsCurrent ==
    (result.op \in {"get_versions", "health_check"} /\ WellFormed(file)) =>
        \A k \in Keys(Served(result)) :
            HasKey(DocOf(file), k) =>
                Get(Served(result), k, StrVal(<<>>)) = Get(DocOf(file), k, StrVal(<<>>))

Handlers ==
    {"health_check", "get_versions", "generate_embeddings", "generate_embeddings_batch",
     "classify_emergency", "translate_text"}

\* the step is the handling of one request
HandlerStep == nOps' = nOps /\ result'.op \in Handlers

\* C17: no request handler changes model_versions or one of the three model
\* references, and neither a handler nor the startup hook writes the registry
\* file
C17_ReadOnlyService ==
    [][/\ HandlerStep =>
             /\ model_versions' = model_versions
             /\ embedding_model' = embedding_model
             /\ emergency_classifier' = emergency_classifier
             /\ translation_model' = translation_model
             /\ file' = file
       /\ (nOps' # nOps /\ result'.op = "load_models") => file' = file]_vars

C17_Witness ==
    /\ result.op = "translate_text"
    /\ result.body.out.status = 200
    /\ model_versions = VersionsFrom(FullDoc)
    /\ WellFormed(file)
    /\ DocOf(file) # FullDoc

(* --------------------------- model availability ------------------------ *)
\* the model reference a POST handler tests
RefOf(op) ==
    IF op \in {"POST /embed", "POST /embed-batch"} THEN embedding_model
    ELSE IF op = "POST /classify-emergency" THEN emergency_classifier
    ELSE translation_model

\* C21: a POST handler answers 503 exactly when its model reference is None;
\* once the startup hook has returned without raising, the three references
\* are not None, whether or not the configured paths exist, no request is
\* answered 503 and /health reports the three models as loaded
C21_ModelAvailability ==
    /\ result.op \in Posts =>
          ((result.body.out.status = 503) <=> (RefOf(result.op) = "None"))
    /\ started = "ok" =>
          /\ embedding_model # "None"
          /\ emergency_classifier # "None"
          /\ translation_model # "None"
          /\ result.op \in Posts => result.body.out.status # 503
          /\ result.op = "health_check" =>
                /\ result.body.out.body.models.embedding
                /\ result.body.out.body.models.emergency_classifier
                /\ result.body.out.body.models.translation

C21_Witness ==
    /\ started = "ok"
    /\ translation_model = "default"
    /\ result.op = "POST /translate"
    /\ result.body.out.status = 200

(* ------------------------ the served version map ----------------------- *)
\* the string "unknown"
UnknownText == StrVal(<<"u", "n", "k", "n", "o", "w", "n">>)

\* the value the version map is to give for key k of the file at startup
ExpectedVersion(f, k) ==
    IF ~f.exists THEN (IF k = "last_updated" THEN UnknownText
                       ELSE StrVal(<<"v", "1", ".", "0", ".", "0">>))
    ELSE IF HasKey(DocOf(f), k) THEN Get(DocOf(f), k, UnknownText)
    ELSE UnknownText

\* C22: when the startup hook has returned, model_versions has exactly the
\* keys embedding_model, emergency_classifier, translation_model and
\* last_updated; each value is the one the document stores, "unknown" when the
\* document exists and lacks the key, and, when there is no document, v1.0.0
\* for a model and "unknown" for last_updated
C22_VersionMapShape ==
    (JustStarted /\ started = "ok") =>
        /\ Len(model_versions) = 4
        /\ Keys(model_versions) =
              {"embedding_model", "emergency_classifier", "translation_model", "last_updated"}
        /\ \A k \in Keys(model_versions) :
              Get(model_versions, k, StrVal(<<>>)) = ExpectedVersion(file, k)

C22_Witness ==
    /\ JustStarted
    /\ started = "ok"
    /\ file = FileOf(Dump(NoEmbeddingDoc))
    /\ Get(model_versions, "embedding_model", StrVal(<<>>)) = UnknownText
    /\ Get(model_versions, "translation_model", StrVal(<<>>)) = StrVal(V100)
====
